---------------------------- MODULE Spec2Model ----------------------------
(***************************************************************************)
(* Model of src/C++/cache.cpp: CacheEntry (address decoding), CacheSet /   *)
(* LruSet / VictimSet (std::list based associative sets), Prefetcher and   *)
(* cache_init.                                                             *)
(*                                                                         *)
(* A uint64_t address is modelled as the set of positions of its 1-bits    *)
(* (a subset of 0..ADDR_WIDTH-1), so that shifts, masks and the wrap of    *)
(* ++ at 2^64 are exact at the full 64-bit width.                          *)
(***************************************************************************)
EXTENDS Integers, Sequences, FiniteSets, TLC

VARIABLES
    ub,           \* what a shift by >= 64 bits (undefined in C++) yields in this build
    probe,        \* the CacheEntry whose accessors are evaluated (decoding)
    fields,       \* the values returned by the four accessors, or NoFields
    cs,           \* one CacheSet object (an LruSet or a VictimSet)
    ret,          \* the value returned by the last member function called (BlankEntry
                  \* when it returns nothing or its result is dropped)
    lastOp,       \* the member function called last
    order,        \* history: tags referenced in an LruSet, most recent reference first
    pending,      \* history: the lines handed to VictimSet::insert and neither reported
                  \* evicted nor taken out by retrieve since, oldest first
    l2,           \* global std::vector<LruSet> l2, which l2Prefetch.prefCache refers to
    pf,           \* the k, c, b, s of the global Prefetcher l2Prefetch
    evictions,    \* the Prefetcher's evictions buffer
    pfLog,        \* history: what each iteration of the prefetch call did, if the last
                  \* call was one; or what each setBlockAddress call on probe did
    threw,        \* the exception the last call left through, or "none"
    conf,         \* the cache_config_t handed to cache_init
    glob,         \* the globals cache_init sets (L1_C .. K, L1_NUM_SETS, L2_NUM_SETS)
    l1,           \* global std::vector<LruSet> l1
    vc,           \* global VictimSet vc
    pc,           \* position of the driver: "start" or "done" (cache_init has run)
    stats,        \* the cache_stats_t the driver hands to cache_access
    trace         \* history: the (addr, rw) of the cache_access calls made, in order

decodeVars == << probe, fields >>
setVars == << cs, ret, lastOp, order, pending >>
prefetchVars == << l2, pf, evictions, pfLog >>
accessVars == << stats, trace >>
initVars == << conf, glob, l1, vc, pc, accessVars >>

vars == << ub, decodeVars, setVars, prefetchVars, threw, initVars >>

-----------------------------------------------------------------------------
(* Bounds of the model *)

\* address bits 0..MaxAddrBit (and bit ADDR_WIDTH-1) may be set in a decoded address
MaxAddrBit == 4
\* decoded geometries take c in 0..MaxC (and c = ADDR_WIDTH), b in 0..MaxB, s in 0..MaxS
MaxC == 4
MaxB == 2
MaxS == 1

ADDR_WIDTH == 64

-----------------------------------------------------------------------------
(* uint64_t arithmetic on bit sets *)

AllBits == 0 .. (ADDR_WIDTH - 1)

\* the outcomes modelled for a shift whose count is >= ADDR_WIDTH:
\* "wrap": the count is taken modulo 64 (x86-64 and AArch64 shift instructions)
\* "zero": every bit is shifted out
UBOutcomes == {"wrap", "zero"}

\* val >> n and val << n for a uint64_t count n; a negative n stands for the count
\* 2^64 + n that an unsigned subtraction wrapped to (2^64 + n = n modulo 64)
ShiftRight(val, n) ==
    IF n >= 0 /\ n < ADDR_WIDTH THEN {i - n : i \in {j \in val : j >= n}}
    ELSE IF ub = "wrap" THEN {i - (n % ADDR_WIDTH) : i \in {j \in val : j >= n % ADDR_WIDTH}}
    ELSE {}

ShiftLeft(val, n) ==
    IF n >= 0 /\ n < ADDR_WIDTH THEN {i + n : i \in val} \cap AllBits
    ELSE IF ub = "wrap" THEN {i + (n % ADDR_WIDTH) : i \in val} \cap AllBits
    ELSE {}

\* x - 1UL for x = 0 or x a power of two (the only uses in the source)
MinusOne(x) ==
    IF x = {} THEN AllBits
    ELSE 0 .. ((CHOOSE i \in x : TRUE) - 1)

\* the lowest position >= i that is not in x
RECURSIVE LowestClear(_, _)
LowestClear(x, i) == IF i \notin x THEN i ELSE LowestClear(x, i + 1)

\* ++x on a uint64_t: the carry runs through the low 1-bits; 2^64 - 1 wraps to 0
Increment(x) ==
    LET z == LowestClear(x, 0)
    IN  IF z >= ADDR_WIDTH THEN {} ELSE {i \in x : i > z} \cup {z}

\* the value of a bit set as a number, for bit sets below 2^20
RECURSIVE Pow2(_)
Pow2(n) == IF n = 0 THEN 1 ELSE 2 * Pow2(n - 1)

RECURSIVE ToNat(_)
ToNat(x) ==
    IF x = {} THEN 0
    ELSE LET i == CHOOSE j \in x : TRUE IN Pow2(i) + ToNat(x \ {i})

-----------------------------------------------------------------------------
(* class CacheEntry *)

\* CacheEntry(): only blank is set; the other members are indeterminate and
\* are fixed here.  `return CacheEntry();` hands this value to the caller as it is
\* (the temporary is constructed in place, without the copy constructor)
BlankEntry ==
    [addr |-> {}, dirty |-> FALSE, c |-> 0, b |-> 0, s |-> 0,
     blank |-> TRUE, prefetched |-> FALSE]

\* CacheEntry(addr_i, dirty_i, c_i, b_i, s_i)
NewEntry(addr_i, dirty_i, c_i, b_i, s_i) ==
    [addr |-> addr_i, dirty |-> dirty_i, c |-> c_i, b |-> b_i, s |-> s_i,
     blank |-> FALSE, prefetched |-> FALSE]

\* a copy constructor that copies every member, blank and prefetched included
CopyEntry_Whole(alt) == alt

\* CacheEntry(const CacheEntry&): blank and prefetched are not copied and take
\* their default member initializers
CopyEntry(alt) ==
    [addr |-> alt.addr, dirty |-> alt.dirty, c |-> alt.c, b |-> alt.b, s |-> alt.s,
     blank |-> FALSE, prefetched |-> FALSE]

tagSize(e) == ADDR_WIDTH - e.c + e.s

byteOffsetSize(e) == e.b

indexSize(e) == e.c - e.s - e.b

\* (val >> shiftAmount) & ((2UL << bitCount) - 1UL)
shiftAndMask(val, bitCount, shiftAmount) ==
    ShiftRight(val, shiftAmount) \cap MinusOne(ShiftLeft({1}, bitCount))

getTag(e) == shiftAndMask(e.addr, tagSize(e), indexSize(e) + byteOffsetSize(e))

getIndex(e) == shiftAndMask(e.addr, indexSize(e), byteOffsetSize(e))

getByteOffset(e) == shiftAndMask(e.addr, byteOffsetSize(e), 0)

getBlockAddress(e) ==
    shiftAndMask(e.addr, indexSize(e) + tagSize(e), byteOffsetSize(e))

setDirty(e, dirty_i) == [e EXCEPT !.dirty = dirty_i]

setPrefetched(e, prefetched_i) == [e EXCEPT !.prefetched = prefetched_i]

\* setBlockAddress overwriting the whole address
setBlockAddress_Whole(e, blockAddress_i) ==
    [e EXCEPT !.addr = ShiftLeft(blockAddress_i, e.b)]

\* addr &= ~(((1UL << (ADDR_WIDTH - b)) - 1UL) << b); addr |= blockAddress_i << b
setBlockAddress(e, blockAddress_i) ==
    LET blockAddressMask ==
            ShiftLeft(MinusOne(ShiftLeft({0}, ADDR_WIDTH - e.b)), e.b)
    IN  [e EXCEPT !.addr = (e.addr \ blockAddressMask)
                           \cup ShiftLeft(blockAddress_i, e.b)]

-----------------------------------------------------------------------------
(* Decoding: the accessors applied to one probe *)

NoFields == [set |-> FALSE]

DecodeAddrs == SUBSET ((0 .. MaxAddrBit) \cup {ADDR_WIDTH - 1})

\* the geometries with c >= s + b
DecodeGeoms ==
    {g \in [c : (0 .. MaxC) \cup {ADDR_WIDTH}, b : 0 .. MaxB, s : 0 .. MaxS] :
        g.c >= g.s + g.b}

\* the counters of a cache_stats_t that the driver has zeroed
ZeroStats ==
    [accesses |-> 0, reads |-> 0, writes |-> 0, l1_hits |-> 0, l1_misses |-> 0]

\* the parts of the state a specification does not use
IdleDecode ==
    /\ probe = BlankEntry
    /\ fields = NoFields

IdleSet ==
    /\ cs = [kind |-> "none"]
    /\ ret = BlankEntry
    /\ lastOp = "none"
    /\ order = << >>
    /\ pending = << >>

IdlePrefetch ==
    /\ l2 = << >>
    /\ pf = [k |-> 0, c |-> 0, b |-> 0, s |-> 0]
    /\ evictions = << >>
    /\ pfLog = << >>

IdleInit ==
    /\ conf = [c |-> 0, s |-> 0, C |-> 0, S |-> 0, b |-> 0, v |-> 0, k |-> 0]
    /\ glob = [set |-> FALSE]
    /\ l1 = << >>
    /\ vc = [kind |-> "none"]
    /\ pc = "start"
    /\ stats = ZeroStats
    /\ trace = << >>

InitDecode ==
    /\ ub \in UBOutcomes
    /\ \E a \in DecodeAddrs, d \in BOOLEAN, g \in DecodeGeoms :
           probe = NewEntry(a, d, g.c, g.b, g.s)
    /\ fields = NoFields
    /\ threw = "none"
    /\ IdleSet /\ IdlePrefetch /\ IdleInit

Decode ==
    /\ fields = NoFields
    /\ fields' = [set |-> TRUE,
                  tag |-> getTag(probe),
                  index |-> getIndex(probe),
                  byteOffset |-> getByteOffset(probe),
                  blockAddress |-> getBlockAddress(probe)]
    /\ UNCHANGED << ub, probe, setVars, prefetchVars, threw, initVars >>

NextDecode == Decode

SpecDecode == InitDecode /\ [][NextDecode]_vars

\* bits [lo, hi) of an address, as a number of hi - lo bits
BitField(a, lo, hi) == {i - lo : i \in {j \in a : j >= lo /\ j < hi}}

\* C5: for every geometry with c >= s + b the accessors return exactly the bit
\* fields byte offset = [0,b), index = [b, b+index_bits), tag = [b+index_bits, 64),
\* block address = [b, 64); a field of 0 bits is 0
C5_AccessorsAreBitFields ==
    fields.set =>
        LET ib == probe.c - probe.s - probe.b
        IN  /\ fields.byteOffset = BitField(probe.addr, 0, probe.b)
            /\ fields.index = BitField(probe.addr, probe.b, probe.b + ib)
            /\ fields.tag = BitField(probe.addr, probe.b + ib, ADDR_WIDTH)
            /\ fields.blockAddress = BitField(probe.addr, probe.b, ADDR_WIDTH)

\* a field placed at bit n of a 64-bit word
PlaceAt(x, n) == {i + n : i \in x} \cap AllBits

\* C6: the tag placed at bit b+index_bits, the index at bit b and the byte offset at
\* bit 0, combined with bitwise or, give back the address
C6_RoundTrip ==
    fields.set =>
        PlaceAt(fields.tag, probe.c - probe.s)
            \cup PlaceAt(fields.index, probe.b)
            \cup fields.byteOffset = probe.addr

-----------------------------------------------------------------------------
(* class CacheSet and its subclasses LruSet and VictimSet.  The std::list is a  *)
(* sequence whose head (index 1) is front().  Every member function is an       *)
(* operator from the object and the arguments to the object afterwards and the  *)
(* value returned.                                                              *)

\* ceil(log2(num)) for num >= 1: the least n with 2^n >= num
RECURSIVE clog2From(_, _)
clog2From(num, n) == IF Pow2(n) >= num THEN n ELSE clog2From(num, n + 1)

clog2(num) == clog2From(num, 0)

\* CacheSet(c_i, b_i, s_i), as LruSet(c_i, b_i, s_i) calls it
LruSet(c_i, b_i, s_i) ==
    [kind |-> "LruSet", ways |-> Pow2(s_i), c |-> c_i, b |-> b_i, s |-> s_i,
     v |-> 0, set |-> << >>]

\* VictimSet() followed by VictimSet::init(v_i, b_i)
VictimSet(v_i, b_i) ==
    [kind |-> "VictimSet", ways |-> Pow2(clog2(v_i)), c |-> clog2(v_i) + b_i,
     b |-> b_i, s |-> clog2(v_i), v |-> v_i, set |-> << >>]

\* std::find(set.begin(), set.end(), tag): the first position whose entry has
\* getTag() == tag (operator==(const uint64_t&)), 0 for set.end()
find(S, tag) ==
    LET hits == {i \in 1 .. Len(S.set) : getTag(S.set[i]) = tag}
    IN  IF hits = {} THEN 0 ELSE CHOOSE i \in hits : \A j \in hits : i <= j

\* std::list::remove(value): erases every element e with e == value
\* (operator==(const CacheEntry&): getTag() == value.getTag())
list_remove(set, value) == SelectSeq(set, LAMBDA e : getTag(e) # getTag(value))

push_front(set, e) == << CopyEntry(e) >> \o set

push_back(set, e) == Append(set, CopyEntry(e))

pop_back(set) == SubSeq(set, 1, Len(set) - 1)

back(set) == set[Len(set)]

retrieve(S, tag) ==
    LET foundEntryIt == find(S, tag)
    IN  IF foundEntryIt = 0
        THEN [cs |-> S, ret |-> BlankEntry]
        ELSE LET found == CopyEntry(S.set[foundEntryIt])
             IN  [cs |-> [S EXCEPT !.set = list_remove(S.set, S.set[foundEntryIt])],
                  ret |-> CopyEntry(found)]

seek(S, tag) ==
    LET foundEntryIt == find(S, tag)
    IN  IF foundEntryIt = 0
        THEN [cs |-> S, ret |-> BlankEntry]
        ELSE [cs |-> S, ret |-> CopyEntry(S.set[foundEntryIt])]

contains(S, tag) == find(S, tag) # 0

\* inserMru with the pop_back() of the full case left out
inserMru_NoPop(S, entry) ==
    IF Len(S.set) < S.ways
    THEN [cs |-> [S EXCEPT !.set = push_front(S.set, CopyEntry(entry))],
          ret |-> BlankEntry]
    ELSE [cs |-> [S EXCEPT !.set = push_front(S.set, CopyEntry(entry))],
          ret |-> CopyEntry(back(S.set))]

\* read without the move to the MRU position
read_NoPromote(S, tag) ==
    IF find(S, tag) = 0
    THEN [cs |-> S, ret |-> BlankEntry]
    ELSE [cs |-> S, ret |-> CopyEntry(S.set[find(S, tag)])]

\* VictimSet::insert evicting front() instead of back()
insert_EvictFront(S, entry) ==
    IF Len(S.set) < S.ways
    THEN [cs |-> [S EXCEPT !.set = push_front(S.set, CopyEntry(entry))],
          ret |-> BlankEntry]
    ELSE [cs |-> [S EXCEPT !.set = push_front(Tail(S.set), CopyEntry(entry))],
          ret |-> CopyEntry(Head(S.set))]

insertLru(S, entry) ==
    IF Len(S.set) < S.ways
    THEN [cs |-> [S EXCEPT !.set = push_back(S.set, CopyEntry(entry))],
          ret |-> BlankEntry]
    ELSE LET lru == CopyEntry(back(S.set))
         IN  [cs |-> [S EXCEPT !.set = push_back(pop_back(S.set), CopyEntry(entry))],
              ret |-> CopyEntry(lru)]

inserMru(S, entry) ==
    IF Len(S.set) < S.ways
    THEN [cs |-> [S EXCEPT !.set = push_front(S.set, CopyEntry(entry))],
          ret |-> BlankEntry]
    ELSE LET lru == CopyEntry(back(S.set))
         IN  [cs |-> [S EXCEPT !.set = push_front(pop_back(S.set), CopyEntry(entry))],
              ret |-> CopyEntry(lru)]

read(S, tag) ==
    LET foundEntryIt == find(S, tag)
    IN  IF foundEntryIt = 0
        THEN [cs |-> S, ret |-> BlankEntry]
        ELSE LET newMru == CopyEntry(S.set[foundEntryIt])
             IN  [cs |-> [S EXCEPT !.set = push_front(list_remove(S.set, newMru), newMru)],
                  ret |-> CopyEntry(newMru)]

\* writeBack returning a dirty copy without marking the resident line
writeBack_NoMark(S, tag) ==
    LET foundEntryIt == find(S, tag)
    IN  IF foundEntryIt = 0
        THEN [cs |-> S, ret |-> BlankEntry]
        ELSE LET newMru == CopyEntry(S.set[foundEntryIt])
             IN  [cs |-> [S EXCEPT !.set = push_front(list_remove(S.set, newMru), newMru)],
                  ret |-> CopyEntry(setDirty(newMru, TRUE))]

writeBack(S, tag) ==
    LET foundEntryIt == find(S, tag)
    IN  IF foundEntryIt = 0
        THEN [cs |-> S, ret |-> BlankEntry]
        ELSE LET marked == [S.set EXCEPT ![foundEntryIt] = setDirty(@, TRUE)]
                 newMru == CopyEntry(marked[foundEntryIt])
             IN  [cs |-> [S EXCEPT !.set = push_front(list_remove(marked, newMru), newMru)],
                  ret |-> CopyEntry(newMru)]

\* VictimSet::insert
insert(S, entry) ==
    IF Len(S.set) < S.ways
    THEN [cs |-> [S EXCEPT !.set = push_front(S.set, CopyEntry(entry))],
          ret |-> BlankEntry]
    ELSE LET fifo == CopyEntry(back(S.set))
         IN  [cs |-> [S EXCEPT !.set = push_front(pop_back(S.set), CopyEntry(entry))],
              ret |-> CopyEntry(fifo)]

-----------------------------------------------------------------------------
(* class Prefetcher.  cache is the vector<LruSet> that prefCache refers to;      *)
(* element i of the vector is cache[i + 1].                                     *)

\* whether vector::at(index) throws std::out_of_range
OutOfRange(cache, index) ==
    \/ \E i \in index : i > 19
    \/ ToNat(index) >= Len(cache)

\* contains() answering false whatever the set holds
contains_Never(S, tag) == FALSE

\* insertLru pushing the new line at the front, as inserMru does
insertLru_AtFront(S, entry) ==
    IF Len(S.set) < S.ways
    THEN [cs |-> [S EXCEPT !.set = push_front(S.set, CopyEntry(entry))],
          ret |-> BlankEntry]
    ELSE [cs |-> [S EXCEPT !.set = push_front(pop_back(S.set), CopyEntry(entry))],
          ret |-> CopyEntry(back(S.set))]

\* what the prefetcher asks of the selected set: contains(), then insertLru()
prefContains(S, tag) == contains(S, tag)

prefInsert(S, entry) == insertLru(S, entry)

\* one iteration of the for loop of Prefetcher::prefetch; st holds the cache, the
\* evictions buffer, tmp_entry, tmp_blockAddress, the exception and the history
prefetchStep(st) ==
    LET tmp_blockAddress == Increment(st.tmp_blockAddress)
        tmp_entry == setBlockAddress(st.tmp_entry, tmp_blockAddress)
        index == getIndex(tmp_entry)
    IN  IF OutOfRange(st.cache, index)
        THEN [st EXCEPT !.threw = "out_of_range",
                        !.tmp_blockAddress = tmp_blockAddress,
                        !.tmp_entry = tmp_entry]
        ELSE LET n == ToNat(index) + 1
                 prefEntrySet == st.cache[n]
             IN  IF ~prefContains(prefEntrySet, getTag(tmp_entry))
                 THEN LET r == prefInsert(prefEntrySet, tmp_entry)
                          evicted == r.ret
                      IN  [st EXCEPT
                              !.cache = [st.cache EXCEPT ![n] = r.cs],
                              !.evictions = IF ~evicted.blank
                                            THEN Append(@, CopyEntry(evicted))
                                            ELSE @,
                              !.tmp_blockAddress = tmp_blockAddress,
                              !.tmp_entry = tmp_entry,
                              !.log = Append(@, [n |-> n, line |-> tmp_entry,
                                                 inserted |-> TRUE,
                                                 before |-> prefEntrySet.set,
                                                 after |-> r.cs.set,
                                                 evicted |-> evicted])]
                 ELSE [st EXCEPT
                          !.tmp_blockAddress = tmp_blockAddress,
                          !.tmp_entry = tmp_entry,
                          !.log = Append(@, [n |-> n, line |-> tmp_entry,
                                             inserted |-> FALSE,
                                             before |-> prefEntrySet.set,
                                             after |-> prefEntrySet.set,
                                             evicted |-> BlankEntry])]

\* the for loop: i iterations are still to run; an exception leaves the loop
RECURSIVE prefetchLoop(_, _)
prefetchLoop(st, i) ==
    IF i = 0 \/ st.threw # "none" THEN st
    ELSE prefetchLoop(prefetchStep(st), i - 1)

\* Prefetcher::prefetch(startEntry) of the prefetcher P on the cache
prefetch(cache, P, startEntry) ==
    prefetchLoop([cache |-> cache,
                  evictions |-> << >>,
                  tmp_entry |-> setPrefetched(setDirty(CopyEntry(startEntry), FALSE), TRUE),
                  tmp_blockAddress |-> getBlockAddress(startEntry),
                  threw |-> "none",
                  log |-> << >>],
                 P.k)

\* popEviction returning the newest buffered line instead of the oldest
popEviction_Newest(ev) ==
    [evictions |-> SubSeq(ev, 1, Len(ev) - 1), ret |-> CopyEntry(CopyEntry(ev[Len(ev)]))]

\* Prefetcher::popEviction() on a buffer that is not empty: a copy of front() is
\* made, pop_front() removes the element, the copy is returned
popEviction(ev) ==
    [evictions |-> Tail(ev), ret |-> CopyEntry(CopyEntry(Head(ev)))]

\* Prefetcher::popEviction() on an empty buffer calls front() and pop_front() on an
\* empty std::list, which is undefined.  The outcomes modelled:
\* "abort":   pop_front() unlinks and frees the list's sentinel node, which is not
\*            heap memory, and the process is killed
\* "garbage": the call returns; the entry returned is a copy (so never blank) of
\*            whatever front() referred to, and the list still reports empty
PopEmptyOutcomes == {"abort", "garbage"}

\* what the copy of front() of an empty list may hold
GarbageEntries == {NewEntry({}, d, 0, 0, 0) : d \in BOOLEAN}

\* Prefetcher::checkEmpty()
checkEmpty(ev) == ev = << >>

-----------------------------------------------------------------------------
(* One CacheSet object and the calls made on it *)

\* lines handed to the insert functions carry tags 0..MaxTag
MaxTag == 1
\* an LruSet has s in 0..MaxSetS, so 2^s ways
MaxSetS == 1
\* a VictimSet is initialised with v in 1..MaxV
MaxV == 3

\* the number n as a uint64_t
FromNat(n) == {i \in 0 .. 19 : (n \div Pow2(i)) % 2 = 1}

LineTags == {FromNat(t) : t \in 0 .. MaxTag}

\* the geometries of the LruSets: 2-byte blocks, one index bit
SetGeoms == {[c |-> s + 2, b |-> 1, s |-> s] : s \in 0 .. MaxSetS}

\* the geometry carried by the lines handed to a VictimSet
VictimLineGeom == [c |-> 3, b |-> 1, s |-> 1]

\* the clean lines of geometry g with a tag in LineTags, index 0 and byte offset 0
\* (a line becomes dirty through writeBack)
Lines(g) ==
    {NewEntry(PlaceAt(t, g.c - g.s), FALSE, g.c, g.b, g.s) : t \in LineTags}

\* the tags of the lines resident in S
TagsIn(S) == {getTag(S.set[i]) : i \in 1 .. Len(S.set)}

\* the history of references after the line with this tag is referenced and the
\* set has become S: the tags no longer resident are forgotten
Touch(ord, tag, S) ==
    SelectSeq(<< tag >> \o SelectSeq(ord, LAMBDA k : k # tag), LAMBDA k : k \in TagsIn(S))

Call(r, op) ==
    /\ cs' = r.cs
    /\ ret' = r.ret
    /\ lastOp' = op
    /\ UNCHANGED << ub, decodeVars, prefetchVars, threw, initVars >>

DoInserMru ==
    /\ cs.kind = "LruSet"
    /\ \E e \in Lines(cs) :
           /\ Call(inserMru(cs, e), "inserMru")
           /\ order' = Touch(order, getTag(e), cs')
    /\ UNCHANGED pending

DoInsertLru ==
    /\ cs.kind = "LruSet"
    /\ \E e \in Lines(cs) :
           /\ Call(insertLru(cs, e), "insertLru")
           \* a line inserted at the LRU end counts as the least recently referenced
           /\ order' = SelectSeq(Append(SelectSeq(order, LAMBDA k : k # getTag(e)),
                                        getTag(e)),
                                 LAMBDA k : k \in TagsIn(cs'))
    /\ UNCHANGED pending

DoRead ==
    /\ cs.kind = "LruSet"
    /\ \E tag \in LineTags :
           /\ Call(read(cs, tag), "read")
           /\ order' = IF contains(cs, tag) THEN Touch(order, tag, cs') ELSE order
    /\ UNCHANGED pending

DoWriteBack ==
    /\ cs.kind = "LruSet"
    /\ \E tag \in LineTags :
           /\ Call(writeBack(cs, tag), "writeBack")
           /\ order' = IF contains(cs, tag) THEN Touch(order, tag, cs') ELSE order
    /\ UNCHANGED pending

DoInsert ==
    /\ cs.kind = "VictimSet"
    /\ \E e \in Lines(VictimLineGeom) :
           LET r == insert(cs, e)
           IN  /\ Call(r, "insert")
               /\ pending' = IF r.ret.blank THEN Append(pending, e)
                              ELSE Tail(Append(pending, e))
    /\ UNCHANGED order

DoRetrieve ==
    /\ cs.kind \in {"LruSet", "VictimSet"}
    /\ \E tag \in LineTags : Call(retrieve(cs, tag), "retrieve")
    /\ order' = SelectSeq(order, LAMBDA k : k \in TagsIn(cs'))
    /\ pending' = SelectSeq(pending, LAMBDA e : getTag(e) \in TagsIn(cs'))

DoSeek ==
    /\ cs.kind \in {"LruSet", "VictimSet"}
    /\ \E tag \in LineTags : Call(seek(cs, tag), "seek")
    /\ UNCHANGED << order, pending >>

DoContains ==
    /\ cs.kind \in {"LruSet", "VictimSet"}
    /\ \E tag \in LineTags :
           Call([cs |-> cs, ret |-> contains(cs, tag)], "contains")
    /\ UNCHANGED << order, pending >>

\* (no shift count reaches ADDR_WIDTH in the geometries of the sets, so ub is
\* never consulted)
InitNoSet ==
    /\ ub = "wrap"
    /\ ret = BlankEntry
    /\ lastOp = "none"
    /\ order = << >>
    /\ pending = << >>
    /\ threw = "none"
    /\ IdleDecode /\ IdlePrefetch /\ IdleInit

InitLru ==
    /\ \E g \in SetGeoms : cs = LruSet(g.c, g.b, g.s)
    /\ InitNoSet

InitVictim ==
    /\ \E v \in 1 .. MaxV : cs = VictimSet(v, VictimLineGeom.b)
    /\ InitNoSet

\* an LruSet used through read, writeBack and inserMru, and the lookups seek and
\* contains, which modify nothing
NextLru == DoInserMru \/ DoRead \/ DoWriteBack \/ DoSeek \/ DoContains

SpecLru == InitLru /\ [][NextLru]_vars

\* a VictimSet used through insert, seek and contains
NextVictim == DoInsert \/ DoSeek \/ DoContains

SpecVictim == InitVictim /\ [][NextVictim]_vars

\* either kind of set, used through every member function it has
NextSet ==
    \/ DoInserMru \/ DoInsertLru \/ DoRead \/ DoWriteBack
    \/ DoInsert \/ DoRetrieve \/ DoSeek \/ DoContains

SpecSet == (InitLru \/ InitVictim) /\ [][NextSet]_vars

-----------------------------------------------------------------------------
(* Claims about one set *)

DistinctTags(S) ==
    \A i, j \in 1 .. Len(S.set) : i # j => getTag(S.set[i]) # getTag(S.set[j])

Full(S) == Len(S.set) = S.ways

\* C1: when an LruSet with pairwise distinct tags is full, inserMru returns the
\* resident line whose last reference (insertion or read/writeBack hit) is the
\* oldest, removes that line and no other, and puts the new line at the front
C1_LruEviction ==
    [][(lastOp' = "inserMru" /\ Full(cs) /\ DistinctTags(cs)) =>
          /\ ~ret'.blank
          /\ \E i \in 1 .. Len(cs.set) :
                /\ ret' = cs.set[i]
                /\ getTag(cs.set[i]) = order[Len(order)]
          /\ Tail(cs'.set) = SelectSeq(cs.set, LAMBDA e : getTag(e) # getTag(ret'))
      ]_vars

\* an eviction from a full two-way set whose victim had been written back to (so
\* referenced again after its insertion), leaving two lines of different tags
C1_Witness ==
    /\ lastOp = "inserMru"
    /\ ~ret.blank
    /\ ret.dirty
    /\ cs.ways = 2
    /\ Full(cs)
    /\ DistinctTags(cs)

\* C2: an initialised set never holds more than ways = 2^s lines
C2_Capacity ==
    cs.kind # "none" => (cs.ways = Pow2(cs.s) /\ Len(cs.set) <= cs.ways)

\* a full victim set of more than one way that has just evicted a line on insert
C2_Witness ==
    /\ cs.kind = "VictimSet"
    /\ lastOp = "insert"
    /\ ~ret.blank
    /\ cs.ways > 1
    /\ Full(cs)

\* C3: VictimSet::insert evicts exactly when the set is full, and then returns the
\* oldest line inserted and not yet evicted; seek and contains leave the set as it is
C3_FifoEviction ==
    [][/\ lastOp' = "insert" =>
             IF Full(cs)
             THEN /\ Len(pending) > 0
                  /\ ret' = CopyEntry(Head(pending))
                  /\ ret' = back(cs.set)
             ELSE ret'.blank
       /\ lastOp' \in {"seek", "contains"} => cs' = cs
      ]_vars

\* a four-way victim set (v = 3) that holds two different tags and has just
\* evicted a line
C3_Witness ==
    /\ cs.kind = "VictimSet"
    /\ lastOp = "insert"
    /\ ~ret.blank
    /\ cs.v = 3
    /\ Cardinality(TagsIn(cs)) > 1

\* the list without its element at position i
Without(list, i) == SubSeq(list, 1, i - 1) \o SubSeq(list, i + 1, Len(list))

\* what read(tag) and writeBack(tag) are to do on S.  On a hit, for a resident line
\* with the tag: read returns it and leaves it at the front, writeBack does so with
\* its dirty flag set, and the other lines follow as they were, in their order.  On a
\* miss both return the blank entry and leave S as it is
HitPromotes(S, tag) ==
    LET hits == {i \in 1 .. Len(S.set) : getTag(S.set[i]) = tag}
        r == read(S, tag)
        w == writeBack(S, tag)
    IN  IF hits = {}
        THEN /\ r.ret.blank /\ r.cs = S
             /\ w.ret.blank /\ w.cs = S
        ELSE \E i \in hits :
                LET line == S.set[i]
                    marked == [line EXCEPT !.dirty = TRUE]
                IN  /\ r.ret = line
                    /\ r.cs = [S EXCEPT !.set = << line >> \o Without(S.set, i)]
                    /\ w.ret = marked
                    /\ w.cs = [S EXCEPT !.set = << marked >> \o Without(S.set, i)]

\* C18 as claimed: in every LruSet, read(tag) and writeBack(tag) on a hit promote
\* the matching line (writeBack marking it dirty) and keep the size of the set and
\* the other lines, their flags and their order; on a miss they change nothing
C18_HitPromotes ==
    cs.kind = "LruSet" => \A tag \in LineTags : HitPromotes(cs, tag)

\* C18 as amended: the same, for an LruSet whose lines have pairwise distinct tags
C18_HitPromotesDistinct ==
    (cs.kind = "LruSet" /\ DistinctTags(cs)) =>
        \A tag \in LineTags : HitPromotes(cs, tag)

\* writeBack has hit in a full two-way set of distinct tags: the line written to is
\* dirty at the front, the other line is clean behind it
C18_Witness ==
    /\ lastOp = "writeBack"
    /\ ~ret.blank
    /\ cs.ways = 2
    /\ Full(cs)
    /\ DistinctTags(cs)
    /\ Head(cs.set) = ret
    /\ ret.dirty
    /\ ~cs.set[2].dirty
    /\ order = << getTag(cs.set[1]), getTag(cs.set[2]) >>

\* C14: a victim cache initialised with V > 0 never holds more than V lines,
\* whether or not V is a power of two
C14_VictimHoldsAtMostV ==
    cs.kind = "VictimSet" => Len(cs.set) <= cs.v

-----------------------------------------------------------------------------
(* A Prefetcher on an L2 cache of two sets *)

\* the prefetcher is initialised with k in 0..MaxK
MaxK == 2
\* trigger lines and filled lines have block addresses 0..MaxBlock
MaxBlock == 2

\* the geometry of the L2 cache: 2-byte blocks, 2 sets of 2 ways
L2Geom == [c |-> 3, b |-> 1, s |-> 1]

\* the geometry of an L1 line: 2-byte blocks, 1 set of 2 ways
L1Geom == [c |-> 2, b |-> 1, s |-> 1]

\* the lines of geometry g with block address 0..MaxBlock, byte offset 0 and a
\* dirty flag in D
BlockLines(g, D) ==
    {NewEntry(PlaceAt(FromNat(n), g.b), d, g.c, g.b, g.s) :
        n \in 0 .. MaxBlock, d \in D}

\* (no shift count reaches ADDR_WIDTH in L1Geom and L2Geom, so ub is never consulted)
InitPrefetch ==
    /\ ub = "wrap"
    /\ l2 = [i \in 1 .. Pow2(L2Geom.c - L2Geom.s - L2Geom.b) |->
                        LruSet(L2Geom.c, L2Geom.b, L2Geom.s)]
    /\ \E k \in 0 .. MaxK : pf = [k |-> k, c |-> L2Geom.c, b |-> L2Geom.b, s |-> L2Geom.s]
    /\ evictions = << >>
    /\ pfLog = << >>
    /\ threw = "none"
    /\ IdleDecode /\ IdleSet /\ IdleInit

\* what the prefetcher actions leave alone
prefetchFrame == << ub, decodeVars, cs, order, pending, pf, initVars >>

\* a line of L2 geometry is put into the L2 set its index selects, by inserMru
DoFill ==
    /\ threw # "abort"
    /\ \E e \in BlockLines(L2Geom, {FALSE}) :
           /\ ~OutOfRange(l2, getIndex(e))
           /\ l2' = [l2 EXCEPT
                  ![ToNat(getIndex(e)) + 1] = inserMru(@, e).cs]
    /\ pfLog' = << >>
    /\ lastOp' = "inserMru"
    \* the line inserMru returns is not kept
    /\ ret' = BlankEntry
    /\ UNCHANGED << prefetchFrame, evictions, threw >>

DoPrefetch ==
    /\ threw # "abort"
    /\ \E g \in {L1Geom, L2Geom} : \E startEntry \in BlockLines(g, BOOLEAN) :
           \E st \in {prefetch(l2, pf, startEntry)} :
               /\ l2' = st.cache
               /\ evictions' = st.evictions
               /\ pfLog' = st.log
               /\ threw' = st.threw
    /\ lastOp' = "prefetch"
    \* prefetch returns nothing
    /\ ret' = BlankEntry
    /\ UNCHANGED prefetchFrame

DoPopEviction ==
    /\ threw # "abort"
    /\ IF ~checkEmpty(evictions)
       THEN /\ ret' = popEviction(evictions).ret
            /\ evictions' = popEviction(evictions).evictions
            /\ threw' = "none"
       ELSE \E outcome \in PopEmptyOutcomes :
                IF outcome = "abort"
                THEN /\ threw' = "abort"
                     /\ UNCHANGED << ret, evictions >>
                ELSE /\ \E g \in GarbageEntries : ret' = CopyEntry(g)
                     /\ threw' = "none"
                     /\ UNCHANGED evictions
    /\ lastOp' = "popEviction"
    /\ UNCHANGED << prefetchFrame, l2, pfLog >>

DoCheckEmpty ==
    /\ threw # "abort"
    /\ ret' = checkEmpty(evictions)
    /\ lastOp' = "checkEmpty"
    /\ UNCHANGED << prefetchFrame, l2, evictions, pfLog, threw >>

NextPrefetch == DoFill \/ DoPrefetch

SpecPrefetch == InitPrefetch /\ [][NextPrefetch]_vars

\* the same, with the evictions buffer read through popEviction and checkEmpty
NextEvictions == DoFill \/ DoPrefetch \/ DoPopEviction \/ DoCheckEmpty

SpecEvictions == InitPrefetch /\ [][NextEvictions]_vars

-----------------------------------------------------------------------------
(* Claims about Prefetcher::prefetch *)

NoDuplicateTag(cache) == \A i \in 1 .. Len(cache) : DistinctTags(cache[i])

\* C4: if no L2 set holds two lines with the same tag before a call of prefetch,
\* none does after it, whatever the trigger line and k, also when the call leaves
\* through an exception
C4_NoDuplicateTag ==
    [][(lastOp' = "prefetch" /\ NoDuplicateTag(l2)) => NoDuplicateTag(l2')
      ]_vars

\* a prefetch call that skipped one candidate because its tag was resident and
\* inserted another
C4_Witness ==
    /\ lastOp = "prefetch"
    /\ NoDuplicateTag(l2)
    /\ \E i, j \in 1 .. Len(pfLog) : ~pfLog[i].inserted /\ pfLog[j].inserted

\* C10 as claimed: every line prefetch inserts is at the most-recently-used position
\* (the front) of its set afterwards, the line evicted from a full set is its
\* least-recently-used line, and the inserted line is not the next one to be evicted
C10_InsertedAtMru ==
    \A i \in 1 .. Len(pfLog) :
        pfLog[i].inserted =>
            /\ Head(pfLog[i].after) = CopyEntry(pfLog[i].line)
            /\ Len(pfLog[i].before) = l2[pfLog[i].n].ways =>
                   /\ pfLog[i].evicted = back(pfLog[i].before)
                   /\ back(pfLog[i].after) # CopyEntry(pfLog[i].line)

\* C10 as amended: every line prefetch inserts is at the least-recently-used
\* position (the back) of its set afterwards; the line evicted from a full set is the
\* line that was at that position before, and the other lines keep their places
C10_InsertedAtLru ==
    \A i \in 1 .. Len(pfLog) :
        pfLog[i].inserted =>
            /\ back(pfLog[i].after) = CopyEntry(pfLog[i].line)
            /\ IF Len(pfLog[i].before) = l2[pfLog[i].n].ways
               THEN /\ pfLog[i].evicted = back(pfLog[i].before)
                    /\ pop_back(pfLog[i].after) = pop_back(pfLog[i].before)
               ELSE /\ pfLog[i].evicted.blank
                    /\ pop_back(pfLog[i].after) = pfLog[i].before

\* a prefetch call that inserted a line into a full two-way set
C10_Witness ==
    \E i \in 1 .. Len(pfLog) :
        /\ pfLog[i].inserted
        /\ Len(pfLog[i].before) = 2
        /\ ~pfLog[i].evicted.blank

\* the set S as an iteration of prefetch left it
SetAfter(entry) == [l2[entry.n] EXCEPT !.set = entry.after]

\* C11: every line prefetch inserts is resident afterwards with prefetched = true
\* and dirty = false, whatever the dirty flag of the trigger line, and seek and read
\* on its set return it with those flags
C11_PrefetchedClean ==
    \A i \in 1 .. Len(pfLog) :
        pfLog[i].inserted =>
            LET S == SetAfter(pfLog[i])
                tag == getTag(pfLog[i].line)
                at == find(S, tag)
            IN  /\ at # 0
                /\ S.set[at].prefetched /\ ~S.set[at].dirty
                /\ seek(S, tag).ret.prefetched /\ ~seek(S, tag).ret.dirty
                /\ read(S, tag).ret.prefetched /\ ~read(S, tag).ret.dirty

\* C21: for every trigger line, a call of prefetch runs its k iterations without an
\* out-of-range set access, and iteration i selects for its candidate block the L2
\* set whose position is the block address modulo 2^(c - s - b), that is bits
\* [b, c - s) of the candidate's address, with the c, b, s the prefetcher was
\* initialised with
C21_SelectsL2Set ==
    lastOp = "prefetch" =>
        /\ threw = "none"
        /\ Len(pfLog) = pf.k
        /\ \A i \in 1 .. Len(pfLog) :
               /\ pfLog[i].n <= Len(l2)
               /\ FromNat(pfLog[i].n - 1) =
                      BitField(pfLog[i].line.addr, pf.b, pf.c - pf.s)

\* how many times the line e occurs in the list
Count(list, e) == Cardinality({j \in 1 .. Len(list) : list[j] = e})

\* the lines that left a set in one iteration of prefetch: those resident before
\* it more often than after it
Lost(entry) ==
    SelectSeq(entry.before,
              LAMBDA e : Count(entry.before, e) > Count(entry.after, e))

\* the lines that left their sets in the iterations of a call, first iteration first
RECURSIVE LostIn(_)
LostIn(log) ==
    IF log = << >> THEN << >>
    ELSE LET l == Lost(Head(log))
         IN  (IF l = << >> THEN << >> ELSE << l[Len(l)] >>) \o LostIn(Tail(log))

\* C12: right after a call of prefetch the evictions buffer holds exactly the lines
\* that call evicted from L2, in the order of their eviction; popEviction on a buffer
\* that is not empty returns its oldest line and removes that line only; checkEmpty
\* answers whether the buffer is empty and changes nothing, and filling L2 leaves the
\* buffer alone
C12_EvictionBuffer ==
    [][/\ lastOp' = "prefetch" => evictions' = LostIn(pfLog')
       /\ (lastOp' = "popEviction" /\ evictions # << >>) =>
              /\ ret' = Head(evictions)
              /\ evictions' = Tail(evictions)
       /\ lastOp' = "checkEmpty" =>
              /\ ret' = (evictions = << >>)
              /\ evictions' = evictions
       /\ lastOp' = "inserMru" => evictions' = evictions
      ]_vars

\* the first of two lines evicted by one call of prefetch has been popped, and
\* the second is still buffered
C12_Witness ==
    /\ lastOp = "popEviction"
    /\ Len(evictions) = 1
    /\ Len(LostIn(pfLog)) = 2
    /\ ret = LostIn(pfLog)[1]
    /\ evictions[1] = LostIn(pfLog)[2]

\* C13: popEviction called on an empty evictions buffer returns the blank entry,
\* leaves the buffer empty and ends normally
C13_PopEmpty ==
    [][(lastOp' = "popEviction" /\ evictions = << >>) =>
          /\ ret' = BlankEntry
          /\ evictions' = << >>
          /\ threw' # "abort"
      ]_vars

-----------------------------------------------------------------------------
(* The L2 cache, its Prefetcher and the victim cache side by side *)

\* (no shift count reaches ADDR_WIDTH in L2Geom, so ub is never consulted)
InitHierarchy ==
    /\ ub = "wrap"
    /\ l2 = [i \in 1 .. Pow2(L2Geom.c - L2Geom.s - L2Geom.b) |->
                        LruSet(L2Geom.c, L2Geom.b, L2Geom.s)]
    /\ \E k \in 1 .. MaxK : pf = [k |-> k, c |-> L2Geom.c, b |-> L2Geom.b, s |-> L2Geom.s]
    \* a victim cache of two lines
    /\ vc = VictimSet(2, L2Geom.b)
    /\ evictions = << >>
    /\ pfLog = << >>
    /\ threw = "none"
    /\ conf = [c |-> 0, s |-> 0, C |-> 0, S |-> 0, b |-> 0, v |-> 0, k |-> 0]
    /\ glob = [set |-> FALSE]
    /\ l1 = << >>
    /\ pc = "start"
    /\ stats = ZeroStats
    /\ trace = << >>
    /\ IdleDecode /\ IdleSet

\* what the victim cache actions leave alone
victimFrame ==
    << ub, decodeVars, cs, order, pending, l2, pf, evictions, threw,
       conf, glob, l1, pc, accessVars >>

\* a clean line of L2 geometry (as L2 evicts them) is handed to vc.insert
DoVictimInsert ==
    /\ \E e \in BlockLines(L2Geom, {FALSE}) : vc' = insert(vc, e).cs
    /\ lastOp' = "insert"
    \* the line insert returns is not kept
    /\ ret' = BlankEntry
    /\ pfLog' = << >>
    /\ UNCHANGED victimFrame

\* a line is looked up in the victim cache and taken out of it: vc.retrieve
DoVictimRetrieve ==
    /\ \E e \in BlockLines(L2Geom, {FALSE}) :
           /\ vc' = retrieve(vc, getTag(e)).cs
           /\ ret' = retrieve(vc, getTag(e)).ret
    /\ lastOp' = "retrieve"
    /\ pfLog' = << >>
    /\ UNCHANGED victimFrame

NextHierarchy == DoVictimInsert \/ DoVictimRetrieve \/ DoPrefetch

SpecHierarchy == InitHierarchy /\ [][NextHierarchy]_vars

\* whether a set of the level holds a line of the block the address is in
Resident(level, addr, b) ==
    \E i \in 1 .. Len(level) : \E j \in 1 .. Len(level[i].set) :
        getBlockAddress(level[i].set[j]) = ShiftRight(addr, b)

\* C17: with a victim cache (V > 0) and prefetching (K > 0), no block is resident
\* in L2 and in the victim cache at the same time
C17_L2VictimExclusive ==
    \A i \in 1 .. Len(vc.set) : ~Resident(l2, vc.set[i].addr, vc.set[i].b)

\* the lines of S are lines of pairwise different blocks
DistinctBlocks(S) ==
    \A i, j \in 1 .. Len(S.set) :
        i # j => getBlockAddress(S.set[i]) # getBlockAddress(S.set[j])

\* what retrieve(tag) is to do on S: on a hit it takes one line with the tag out of
\* the set and returns it, address and dirty flag as they were, the other lines
\* staying as they were, in their order; on a miss it returns the blank entry and
\* leaves S as it is
TakesOne(S, tag) ==
    LET hits == {i \in 1 .. Len(S.set) : getTag(S.set[i]) = tag}
        r == retrieve(S, tag)
    IN  IF hits = {}
        THEN r.ret.blank /\ r.cs = S
        ELSE \E i \in hits :
                /\ r.ret = S.set[i]
                /\ r.cs = [S EXCEPT !.set = Without(S.set, i)]
                /\ Len(r.cs.set) = Len(S.set) - 1

\* C19: retrieve(tag) on a hit removes exactly one line and returns it, on a miss
\* changes nothing; checked on the victim cache holding lines of distinct blocks that
\* L2 evicted (lines of L2 geometry, from either L2 set)
C19_RetrieveTakesOne ==
    DistinctBlocks(vc) =>
        \A e \in BlockLines(L2Geom, {FALSE}) : TakesOne(vc, getTag(e))

-----------------------------------------------------------------------------
(* Blank entries handed to the insert functions of L2 and of the victim cache *)

\* the geometry of the L2 cache here: 2-byte blocks, one set of 2 ways
SmallL2Geom == [c |-> 2, b |-> 1, s |-> 1]

\* what the insert functions are given: the blank entry, or the clean line of
\* block 0
InsertInputs == {BlankEntry, NewEntry({}, FALSE, SmallL2Geom.c, SmallL2Geom.b, SmallL2Geom.s)}

\* (the copy of a blank entry carries c = 0, for which getTag shifts by ADDR_WIDTH;
\* its address is 0, so its tag is 0 whatever that shift yields)
InitBlank ==
    /\ ub = "wrap"
    /\ l2 = << LruSet(SmallL2Geom.c, SmallL2Geom.b, SmallL2Geom.s) >>
    /\ \E k \in 1 .. MaxK :
           pf = [k |-> k, c |-> SmallL2Geom.c, b |-> SmallL2Geom.b, s |-> SmallL2Geom.s]
    /\ vc = VictimSet(2, SmallL2Geom.b)
    /\ evictions = << >>
    /\ pfLog = << >>
    /\ threw = "none"
    /\ conf = [c |-> 0, s |-> 0, C |-> 0, S |-> 0, b |-> 0, v |-> 0, k |-> 0]
    /\ glob = [set |-> FALSE]
    /\ l1 = << >>
    /\ pc = "start"
    /\ stats = ZeroStats
    /\ trace = << >>
    /\ IdleDecode /\ IdleSet

DoInserMruL2 ==
    /\ threw # "abort"
    /\ \E n \in 1 .. Len(l2), e \in InsertInputs :
           l2' = [l2 EXCEPT ![n] = inserMru(@, e).cs]
    /\ lastOp' = "inserMru"
    \* the line inserMru returns is not kept
    /\ ret' = BlankEntry
    /\ pfLog' = << >>
    /\ UNCHANGED << prefetchFrame, evictions, threw >>

DoInsertLruL2 ==
    /\ threw # "abort"
    /\ \E n \in 1 .. Len(l2), e \in InsertInputs :
           l2' = [l2 EXCEPT ![n] = insertLru(@, e).cs]
    /\ lastOp' = "insertLru"
    \* the line insertLru returns is not kept
    /\ ret' = BlankEntry
    /\ pfLog' = << >>
    /\ UNCHANGED << prefetchFrame, evictions, threw >>

DoInsertVc ==
    /\ \E e \in InsertInputs : vc' = insert(vc, e).cs
    /\ lastOp' = "insert"
    \* the line insert returns is not kept
    /\ ret' = BlankEntry
    /\ pfLog' = << >>
    /\ UNCHANGED victimFrame

NextBlank == DoInserMruL2 \/ DoInsertLruL2 \/ DoInsertVc \/ DoPrefetch

SpecBlank == InitBlank /\ [][NextBlank]_vars

\* no line of the list is blank
NoBlank(list) == \A i \in 1 .. Len(list) : ~list[i].blank

\* C22: no entry stored in an L2 set, in the victim cache or in the evictions buffer
\* is blank, also after a blank entry was handed to inserMru, insertLru or
\* VictimSet::insert; and whatever is inserted into a full set, the line returned as
\* evicted is not blank
C22_NoBlankStored ==
    /\ \A n \in 1 .. Len(l2) : NoBlank(l2[n].set)
    /\ NoBlank(vc.set)
    /\ NoBlank(evictions)
    /\ \A n \in 1 .. Len(l2), e \in InsertInputs :
           Full(l2[n]) => /\ ~inserMru(l2[n], e).ret.blank
                          /\ ~insertLru(l2[n], e).ret.blank
    /\ \A e \in InsertInputs : Full(vc) => ~insert(vc, e).ret.blank

\* the copy stored when the blank entry is inserted
StoredBlank == CopyEntry(BlankEntry)

\* copies of the blank entry sit in a full L2 set and in the full victim cache, and
\* one that prefetch evicted from L2 is in the evictions buffer
C22_Witness ==
    /\ \E n \in 1 .. Len(l2) :
           /\ Full(l2[n])
           /\ \E i \in 1 .. Len(l2[n].set) : l2[n].set[i] = StoredBlank
    /\ Full(vc)
    /\ \E i \in 1 .. Len(vc.set) : vc.set[i] = StoredBlank
    /\ \E i \in 1 .. Len(evictions) : evictions[i] = StoredBlank

-----------------------------------------------------------------------------
(* setBlockAddress applied to one probe, once or several times in a row *)

\* the addresses of the probes: byte offset and low block bits, the top bit, and
\* the address of all ones
ComposeAddrs == (SUBSET {0, 1, ADDR_WIDTH - 1}) \cup {AllBits}

\* the geometries of the probes
ComposeGeoms == {g \in DecodeGeoms : g.c \in {MaxC, ADDR_WIDTH}}

\* the block addresses handed to setBlockAddress, besides the successor of the
\* probe's own block address (the ++tmp_blockAddress of the prefetcher)
ComposeBlocks == {{}, {0, ADDR_WIDTH - 2}, AllBits}

InitCompose ==
    /\ ub \in UBOutcomes
    /\ \E a \in ComposeAddrs, g \in ComposeGeoms :
           probe = NewEntry(a, FALSE, g.c, g.b, g.s)
    /\ fields = NoFields
    /\ l2 = << >>
    /\ \E k \in 1 .. MaxK : pf = [k |-> k, c |-> 0, b |-> 0, s |-> 0]
    /\ evictions = << >>
    /\ pfLog = << >>
    /\ threw = "none"
    /\ IdleSet /\ IdleInit

\* tmp_entry.setBlockAddress(x), at most k times as in the loop of prefetch
DoSetBlockAddress ==
    /\ Len(pfLog) < pf.k
    /\ \E x \in ComposeBlocks \cup {Increment(getBlockAddress(probe))} :
           /\ probe' = setBlockAddress(probe, x)
           /\ pfLog' = Append(pfLog, [was |-> probe, x |-> x, now |-> probe'])
    /\ UNCHANGED << ub, fields, setVars, l2, pf, evictions, threw, initVars >>

NextCompose == DoSetBlockAddress

SpecCompose == InitCompose /\ [][NextCompose]_vars

\* C20: for b >= 1, setBlockAddress(x) leaves the low b bits of the address as they
\* were and makes getBlockAddress() return x modulo 2^(64-b), also when it is
\* applied to one block address after the other
C20_SetBlockAddress ==
    \A i \in 1 .. Len(pfLog) :
        LET e == pfLog[i]
        IN  e.was.b >= 1 =>
                /\ BitField(e.now.addr, 0, e.was.b) = BitField(e.was.addr, 0, e.was.b)
                /\ getBlockAddress(e.now) = {j \in e.x : j < ADDR_WIDTH - e.was.b}

\* a probe with a byte offset other than 0 was given a block address that does not
\* fit in 64 - b bits and then the successor of the block address it had got
C20_Witness ==
    /\ Len(pfLog) = 2
    /\ pfLog[1].was.b >= 1
    /\ BitField(pfLog[1].was.addr, 0, pfLog[1].was.b) # {}
    /\ pfLog[1].x = {0, ADDR_WIDTH - 2}
    /\ \E j \in pfLog[1].x : j >= ADDR_WIDTH - pfLog[1].was.b
    /\ pfLog[2].x = Increment(getBlockAddress(pfLog[1].now))
    /\ probe.addr # pfLog[1].now.addr

-----------------------------------------------------------------------------
(* cache_init *)

\* std::vector::reserve(n) throws std::length_error when n exceeds max_size(),
\* which is below 2^58 for a vector<LruSet>; a count of at most 2^19 is allocated
ReserveThrows(n) == \E i \in n : i > 19

\* count copies of LruSet(c_i, b_i, s_i) pushed to the back of the vector v
RECURSIVE pushSets(_, _, _, _, _)
pushSets(v, count, c_i, b_i, s_i) ==
    IF count = 0 THEN v
    ELSE pushSets(Append(v, LruSet(c_i, b_i, s_i)), count - 1, c_i, b_i, s_i)

\* the state cache_init(conf) leaves: the globals, l1, l2, l2Prefetch, vc and the
\* exception it ends with.  G, L1, L2, P, VC are those objects before the call
cache_init(cf, G, L1, L2, P, VC) ==
    LET L1_NUM_SETS == ShiftLeft({0}, cf.c - cf.s - cf.b)
        L2_NUM_SETS == ShiftLeft({0}, cf.C - cf.S - cf.b)
        globals == [set |-> TRUE,
                    L1_C |-> cf.c, L1_S |-> cf.s, L2_C |-> cf.C, L2_S |-> cf.S,
                    B |-> cf.b, V |-> cf.v, K |-> cf.k,
                    L1_NUM_SETS |-> L1_NUM_SETS, L2_NUM_SETS |-> L2_NUM_SETS]
    IN  IF ReserveThrows(L1_NUM_SETS) \/ ReserveThrows(L2_NUM_SETS)
        THEN [glob |-> globals, l1 |-> L1, l2 |-> L2, pf |-> P, vc |-> VC,
              threw |-> "length_error"]
        ELSE [glob |-> globals,
              l1 |-> pushSets(pushSets(L1, ToNat(L1_NUM_SETS), cf.c, cf.b, cf.s),
                              ToNat(L2_NUM_SETS), cf.C, cf.b, cf.S),
              l2 |-> L2,
              pf |-> [k |-> cf.k, c |-> cf.C, b |-> cf.b, s |-> cf.S],
              vc |-> VictimSet(cf.v, cf.b),
              threw |-> "done initializing!!!"]

\* the configurations handed to cache_init: c, C in 0..MaxC, s, S in 0..MaxS,
\* b in 0..MaxB, v in 1..MaxV, k in 0..MaxK
Confs ==
    [c : 0 .. MaxC, s : 0 .. MaxS, C : 0 .. MaxC, S : 0 .. MaxS, b : 0 .. MaxB,
     v : 1 .. MaxV, k : 0 .. MaxK]

InitCacheInit ==
    /\ ub \in UBOutcomes
    /\ conf \in Confs
    /\ glob = [set |-> FALSE]
    /\ l1 = << >>
    /\ vc = [kind |-> "none"]
    /\ pc = "start"
    /\ stats = ZeroStats
    /\ trace = << >>
    /\ threw = "none"
    /\ IdleDecode /\ IdleSet /\ IdlePrefetch

DoCacheInit ==
    /\ pc = "start"
    /\ \E r \in {cache_init(conf, glob, l1, l2, pf, vc)} :
           /\ glob' = r.glob
           /\ l1' = r.l1
           /\ l2' = r.l2
           /\ pf' = r.pf
           /\ vc' = r.vc
           /\ threw' = r.threw
    /\ pc' = "done"
    /\ UNCHANGED << ub, decodeVars, setVars, evictions, pfLog, conf, accessVars >>

NextCacheInit == DoCacheInit

SpecCacheInit == InitCacheInit /\ [][NextCacheInit]_vars

-----------------------------------------------------------------------------
(* Claims about cache_init *)

ValidConf(cf) == cf.c >= cf.s + cf.b /\ cf.C >= cf.S + cf.b

\* the sets of a cache level as they should be after initialisation
EmptyLevel(c_i, b_i, s_i) ==
    [i \in 1 .. Pow2(c_i - s_i - b_i) |-> LruSet(c_i, b_i, s_i)]

\* C7: cache_init with a valid configuration ends without signalling failure
C7_InitSucceeds ==
    (pc = "done" /\ ValidConf(conf)) => threw = "none"

\* C8: after cache_init with a valid configuration l1 holds 2^(l1_c - l1_s - b)
\* empty sets of L1 geometry and l2 holds 2^(l2_c - l2_s - b) empty sets of L2
\* geometry
C8_LevelsBuilt ==
    (pc = "done" /\ ValidConf(conf)) =>
        /\ l1 = EmptyLevel(conf.c, conf.b, conf.s)
        /\ l2 = EmptyLevel(conf.C, conf.b, conf.S)

\* C9: cache_init rejects a configuration with l1_c < l1_s + b or l2_c < l2_s + b
\* with a configuration error, before any set count is computed or set allocated
C9_RejectsInvalid ==
    (pc = "done" /\ ~ValidConf(conf)) =>
        /\ threw = "ConfigError"
        /\ ~glob.set
        /\ l1 = << >>
        /\ l2 = << >>


-----------------------------------------------------------------------------
(* cache_access, called by the driver after cache_init *)

\* the driver makes at most MaxCalls calls of cache_access
MaxCalls == 3

\* cache_access(addr, rw, stats): the body is empty, so the statistics and the
\* globals l1, l2, vc are after the call what they were before it
cache_access(addr, rw, stats_i, L1, L2, VC) ==
    [stats |-> stats_i, l1 |-> L1, l2 |-> L2, vc |-> VC]

\* the configurations of the access runs: L1 of 16 sets of 2 ways with 32-byte
\* blocks, or L1 of one set of 2 ways; each with L2 of 2 sets of 2 ways, v = 2, k = 2
AccessConfs ==
    {[c |-> c, s |-> 1, C |-> 7, S |-> 1, b |-> 5, v |-> 2, k |-> 2] : c \in {6, 10}}

\* the addresses accessed: 0x0000, 0x0020, 0x0040
AccessAddrs == {{}, {5}, {6}}

\* the rw argument: READ is 'r', WRITE is 'w'
AccessKinds == {"r", "w"}

\* (no shift count reaches ADDR_WIDTH in AccessConfs, so ub is never consulted)
InitAccess ==
    /\ ub = "wrap"
    /\ conf \in AccessConfs
    /\ glob = [set |-> FALSE]
    /\ l1 = << >>
    /\ vc = [kind |-> "none"]
    /\ pc = "start"
    /\ stats = ZeroStats
    /\ trace = << >>
    /\ threw = "none"
    /\ IdleDecode /\ IdleSet /\ IdlePrefetch

DoCacheAccess ==
    /\ pc = "done"
    /\ Len(trace) < MaxCalls
    /\ \E addr \in AccessAddrs, rw \in AccessKinds :
           /\ \E r \in {cache_access(addr, rw, stats, l1, l2, vc)} :
                  /\ stats' = r.stats
                  /\ l1' = r.l1
                  /\ l2' = r.l2
                  /\ vc' = r.vc
           /\ trace' = Append(trace, [addr |-> addr, rw |-> rw])
    /\ UNCHANGED << ub, decodeVars, setVars, pf, evictions, pfLog, threw, conf, glob, pc >>

\* the driver initialises the cache, then makes its accesses
NextAccess == DoCacheInit \/ DoCacheAccess

SpecAccess == InitAccess /\ [][NextAccess]_vars

-----------------------------------------------------------------------------
(* Claims about cache_access *)

\* how many of the calls made had this rw
CallsOf(rw) == Cardinality({i \in 1 .. Len(trace) : trace[i].rw = rw})

\* C15: after initialisation every call of cache_access adds one to the
\* total-access counter, one to exactly one of the read and write counters
\* (according to rw), and one to exactly one of the L1 hit and L1 miss counters
C15_AccessCounted ==
    pc = "done" =>
        /\ stats.accesses = Len(trace)
        /\ stats.reads = CallsOf("r")
        /\ stats.writes = CallsOf("w")
        /\ stats.l1_hits + stats.l1_misses = Len(trace)

\* C16: with L1 geometry c = 10, b = 5, s = 1 and L1 empty after initialisation,
\* once 0x0000, 0x0020, 0x0040 have been accessed in that order the block of
\* 0x0000 is no longer resident in L1 and the block of 0x0020 is
C16_ThirdAccessEvictsFirst ==
    (/\ pc = "done"
     /\ conf.c = 10 /\ conf.b = 5 /\ conf.s = 1
     /\ [i \in 1 .. Len(trace) |-> trace[i].addr] = << {}, {5}, {6} >>) =>
        /\ ~Resident(l1, {}, conf.b)
        /\ Resident(l1, {5}, conf.b)

=============================================================================
